---- MODULE Spec2Model ----
(***************************************************************************)
(* RealTimeChart (src/src/RealTimeChart.js): the data window, the range    *)
(* normaliser and the dispatch of draw calls to the renderer plugins.      *)
(*                                                                         *)
(* Numbers.  Raw samples and configured ranges are integers and every raw  *)
(* sample is a multiple of 10, so that `value + value * 0.1` is the        *)
(* integer value + value \div 10 and every quantity of the normaliser is   *)
(* an integer.  A percent is a JavaScript number that may be +-Infinity    *)
(* (division by a valueDiff of 0); it is the record [fin, n]: n is the     *)
(* number when fin, and the sign of the infinity otherwise.                *)
(***************************************************************************)
EXTENDS Integers, Sequences, FiniteSets, TLC

VARIABLES
    options,      \* this.options: [set |-> FALSE] after construction ({})
    settings,     \* this.settings
    data,         \* this.data: the window, a sequence of batches
    inited,       \* init() has run: this.Stage, this.Bar, this.Line exist
    pendingInit,  \* number of onLoad().then(init) callbacks not yet run
    nSetOptions,  \* history: setOptions calls made so far
    draws,        \* setOptions+draw calls received by Bar/Line in the last render
    resets,       \* Line.resetXY calls received in the last render
    thrown,       \* exception raised by the last operation, "none" if none
    destroyed,    \* history: destroy() has been called
    nCalls,       \* history: addChartData calls made so far
    settled,      \* history: every addChartData call followed the last setOptions and its init
    tags          \* history: tags[i] is the number of the call that made data[i]

vars == <<options, settings, data, inited, pendingInit, nSetOptions, draws, resets,
          thrown, destroyed, nCalls, settled, tags>>

(***************************************************************************)
(* Bounds of the model.                                                    *)
(***************************************************************************)
MaxCalls == 2        \* addChartData calls in one behaviour
MaxSetOptions == 2   \* setOptions calls in one behaviour
StackDepth == 8      \* nested recalculatePercents frames before RangeError

\* Raw sample values offered to addChartData (multiples of 10).
Raw == {-40, 0, 10, 200}

\* Arrays passed to addChartData hold one sample, or one sample for each of
\* SeriesCount series with values from SeriesRaw.
SeriesCount == {1, 2}
SeriesRaw == {10, 200}

\* Sample ids offered to addChartData; NoId stands for an absent id.
NoId == "undefined"
Ids == <<"a", "b", "c", "d">>

(***************************************************************************)
(* JavaScript numbers.                                                     *)
(***************************************************************************)
Fin(n) == [fin |-> TRUE, n |-> n]
PosInf == [fin |-> FALSE, n |-> 1]
NegInf == [fin |-> FALSE, n |-> -1]

\* a < b on percents.
NumLess(a, b) ==
    IF a.fin /\ b.fin THEN a.n < b.n
    ELSE IF a.fin THEN b.n = 1
    ELSE IF b.fin THEN a.n = -1
    ELSE a.n < b.n

\* Math.round(num / den) for den # 0: the nearest integer, ties towards
\* +Infinity, which is floor(num / den + 1/2).
MathRound(num, den) ==
    IF den > 0 THEN (2 * num + den) \div (2 * den)
    ELSE ((-2) * num - den) \div ((-2) * den)

\* Math.round(num / den * 100) || 1 (the expression of calculatePercent):
\* 0, -0 and NaN (0 / 0) are falsy and give 1; x / 0 is +-Infinity.
PercentOf(num, den) ==
    IF den = 0
    THEN IF num = 0 THEN Fin(1) ELSE IF num > 0 THEN PosInf ELSE NegInf
    ELSE LET r == MathRound(100 * num, den)
         IN  IF r = 0 THEN Fin(1) ELSE Fin(r)

(***************************************************************************)
(* setOptions: the defaults and the options a user may pass.               *)
(***************************************************************************)
Defaults ==
    [type |-> "line", width |-> 600, height |-> 600, totalElement |-> 50,
     minValue |-> 250, maxValue |-> 500, calcMaxValue |-> FALSE,
     showRuler |-> TRUE,
     legend |-> <<"#846f08", "#2cabe3", "#000", "#53e69d">>,
     paddingRight |-> 0, paddingBottom |-> 0]

\* { ...defaults, ...user }
Merge(user) ==
    [k \in DOMAIN Defaults |-> IF k \in DOMAIN user THEN user[k] ELSE Defaults[k]]

UserOptions ==
    { [minValue |-> 0, maxValue |-> 100, totalElement |-> 2],
      [minValue |-> 0, maxValue |-> 100, totalElement |-> 1,
       calcMaxValue |-> TRUE, type |-> "bar"],
      [minValue |-> -100, maxValue |-> -41, totalElement |-> 2,
       calcMaxValue |-> TRUE] }

\* Options that vary what calculateDefaults reads (legend, showRuler and the
\* two paddings), and ranges whose maxValue is not above minValue.
LayoutOptions ==
    [legend : {<<>>, <<"#000">>}, showRuler : BOOLEAN,
     paddingBottom : {0, 10}, paddingRight : {0, 10}]

RangeOptions ==
    { [minValue |-> 100, maxValue |-> 100], [minValue |-> 100, maxValue |-> 0] }

ConfigOptions == LayoutOptions \cup RangeOptions

Unset == [set |-> FALSE]

MinValue == options.minValue
Calc == options.calcMaxValue

(***************************************************************************)
(* The normaliser.  filterValue, calculatePercent and recalculatePercents  *)
(* call each other; they run on the record                                 *)
(*   st = [maxValue, valueDiff, data, err]                                 *)
(* of what they read and write (options.maxValue, settings.valueDiff,      *)
(* this.data) and the exception raised so far.  fuel is the number of      *)
(* recalculatePercents frames the call stack still holds: the recursion    *)
(* filterValue -> recalculatePercents -> calculatePercent -> filterValue   *)
(* that does not end raises RangeError when the stack is exhausted.        *)
(***************************************************************************)
RECURSIVE filterValue(_, _, _)
RECURSIVE recalculateFrom(_, _, _, _)

\* A calculateValueDiff that forgets options.minValue.
calculateValueDiffOfMaxOnly(st) == [st EXCEPT !.valueDiff = st.maxValue]

calculateValueDiff(st) == [st EXCEPT !.valueDiff = st.maxValue - MinValue]

\* value + value * 0.1
Expanded(value) == value + value \div 10

calculatePercent(st, num, fuel) ==
    LET f == filterValue(st, num, fuel)
    IN  [st |-> f.st,
         percent |-> IF ~options.set THEN Fin(1)
                     ELSE PercentOf(f.ret - MinValue, f.st.valueDiff)]

recalculatePercents(st, fuel) == recalculateFrom(st, 1, 1, fuel)

\* A recalculation that normalises the stored percent again instead of the
\* raw defValue.
RECURSIVE recalculateFromValue(_, _, _, _)
recalculateFromValue(st, b, i, fuel) ==
    IF st.err # "none" \/ b > Len(st.data) THEN st
    ELSE IF ~st.data[b].ok THEN [st EXCEPT !.err = "TypeError"]
    ELSE IF i > Len(st.data[b].samples) THEN recalculateFromValue(st, b + 1, 1, fuel)
    ELSE LET v == st.data[b].samples[i].value
             r == calculatePercent(st, IF v.fin THEN v.n ELSE 0, fuel)
         IN  IF r.st.err # "none" THEN r.st
             ELSE recalculateFromValue(
                    [r.st EXCEPT !.data[b].samples[i].value = r.percent],
                    b, i + 1, fuel)

\* The two nested maps of recalculatePercents, from sample i of batch b on.
recalculateFrom(st, b, i, fuel) ==
    IF st.err # "none" \/ b > Len(st.data) THEN st
    ELSE IF ~st.data[b].ok THEN [st EXCEPT !.err = "TypeError"]
    ELSE IF i > Len(st.data[b].samples) THEN recalculateFrom(st, b + 1, 1, fuel)
    ELSE LET r == calculatePercent(st, st.data[b].samples[i].defValue, fuel)
         IN  IF r.st.err # "none" THEN r.st
             ELSE recalculateFrom(
                    [r.st EXCEPT !.data[b].samples[i].value = r.percent],
                    b, i + 1, fuel)

\* A filterValue that, after growing the range, returns the new maximum
\* instead of the value.
filterValueClampsToNewMax(st, value, fuel) ==
    IF ~options.set THEN [st |-> st, ret |-> value]
    ELSE IF value < MinValue THEN [st |-> st, ret |-> MinValue]
    ELSE IF value > st.maxValue
    THEN IF Calc
         THEN LET grown == calculateValueDiff(
                             [st EXCEPT !.maxValue = Expanded(value)])
                  done == IF fuel = 0 THEN [grown EXCEPT !.err = "RangeError"]
                          ELSE recalculatePercents(grown, fuel - 1)
              IN  [st |-> IF done.err = "none" /\ ~inited
                          THEN [done EXCEPT !.err = "TypeError"]
                          ELSE done,
                   ret |-> done.maxValue]
         ELSE [st |-> st, ret |-> st.maxValue]
    ELSE [st |-> st, ret |-> value]

filterValue(st, value, fuel) ==
    IF ~options.set THEN [st |-> st, ret |-> value]
    ELSE IF value < MinValue THEN [st |-> st, ret |-> MinValue]
    ELSE IF value > st.maxValue
    THEN IF Calc
         THEN LET grown == calculateValueDiff(
                             [st EXCEPT !.maxValue = Expanded(value)])
                  done == IF fuel = 0 THEN [grown EXCEPT !.err = "RangeError"]
                          ELSE recalculatePercents(grown, fuel - 1)
              IN  [st |-> IF done.err = "none" /\ ~inited
                          THEN [done EXCEPT !.err = "TypeError"]
                          ELSE done,
                   ret |-> value]
         ELSE [st |-> st, ret |-> st.maxValue]
    ELSE [st |-> st, ret |-> value]

(***************************************************************************)
(* addChartData.                                                           *)
(***************************************************************************)
\* What addChartData may be given: a number, an object {value, id?}, an
\* array of objects {value, id} or something else (a string, a boolean,
\* undefined, an object without value).  The samples of an array of several
\* series have different values.
Items(n) ==
    { [i \in 1..n |-> [value |-> v[i], id |-> IF n = 1 THEN NoId ELSE Ids[i]]] :
        v \in { f \in [1..n -> IF n = 1 THEN Raw ELSE SeriesRaw] :
                   \A i, j \in 1..n : i # j => f[i] # f[j] } }

Inputs ==
    [shape : {"number"}, items : [1..1 -> [value : Raw, id : {NoId}]]]
    \cup [shape : {"object"}, items : [1..1 -> [value : Raw, id : {NoId}]]]
    \cup [shape : {"array"}, items : UNION { Items(n) : n \in SeriesCount }]
    \cup [shape : {"malformed"}, items : {<<>>}]

Undefined == [ok |-> FALSE, samples |-> <<>>]

\* values.map(numObject => ...) of transformChartDataToPercent, from item i
\* on; out holds the samples mapped so far.
RECURSIVE mapItems(_, _, _, _)
mapItems(st, items, i, out) ==
    IF st.err # "none" \/ i > Len(items)
    THEN [st |-> st, batch |-> [ok |-> TRUE, samples |-> out]]
    ELSE LET r == calculatePercent(st, items[i].value, StackDepth)
         IN  mapItems(r.st, items, i + 1,
                      Append(out, [value |-> r.percent,
                                   defValue |-> items[i].value,
                                   id |-> items[i].id]))

transformChartDataToPercent(st, input) ==
    IF input.shape = "number" THEN mapItems(st, input.items, 1, <<>>)
    ELSE IF input.shape = "object" /\ input.items[1].value # 0
    THEN mapItems(st, input.items, 1, <<>>)
    ELSE IF input.shape = "array" THEN mapItems(st, input.items, 1, <<>>)
    ELSE [st |-> st, batch |-> Undefined]

Current ==
    [maxValue |-> IF options.set THEN options.maxValue ELSE 0,
     valueDiff |-> settings.valueDiff, data |-> data, err |-> "none"]

\* push, then shift when the window is longer than totalElement.
Pushed(window, batch) ==
    LET w == Append(window, batch)
    IN  IF options.set /\ Len(w) > options.totalElement THEN Tail(w) ELSE w

addChartData(input) ==
    /\ nCalls < MaxCalls
    /\ LET r == transformChartDataToPercent(Current, input)
           ok == r.st.err = "none"
       IN  /\ options' = IF options.set
                         THEN [options EXCEPT !.maxValue = r.st.maxValue]
                         ELSE options
           /\ settings' = [settings EXCEPT !.valueDiff = r.st.valueDiff]
           /\ data' = IF ok THEN Pushed(r.st.data, r.batch) ELSE r.st.data
           /\ tags' = IF ok THEN Pushed(tags, nCalls + 1) ELSE tags
           /\ thrown' = r.st.err
    /\ nCalls' = nCalls + 1
    /\ settled' = (settled /\ options.set /\ inited /\ pendingInit = 0)
    /\ draws' = <<>>
    /\ resets' = 0
    /\ UNCHANGED <<inited, pendingInit, nSetOptions, destroyed>>

(***************************************************************************)
(* setOptions, onLoad and init.                                            *)
(***************************************************************************)
setOptions(user) ==
    /\ nSetOptions < MaxSetOptions
    /\ nSetOptions' = nSetOptions + 1
    /\ options' = Merge(user) @@ [set |-> TRUE]
    /\ pendingInit' = pendingInit + 1
    /\ settled' = (nCalls = 0)
    /\ thrown' = "none"
    /\ draws' = <<>>
    /\ resets' = 0
    /\ UNCHANGED <<settings, data, inited, destroyed, nCalls, tags>>

RECURSIVE Gcd(_, _)
Gcd(a, b) == IF b = 0 THEN a ELSE Gcd(b, a % b)

\* The number num / den for den > 0, in lowest terms.
Ratio(num, den) ==
    LET g == Gcd(IF num < 0 THEN -num ELSE num, den)
    IN  [num |-> num \div g, den |-> den \div g]

\* this.settings after construction.
Settings ==
    [paddingBottom |-> 0, paddingRight |-> 0, borderWidth |-> 2,
     boxInnerPadding |-> 2, stageWidth |-> 0, stageHeight |-> 0,
     oneXSegment |-> Ratio(0, 1), oneYSegment |-> Ratio(0, 1), valueDiff |-> 0]

\* calculateDefaults on the settings `old`: a padding is assigned only under
\* its condition and keeps its old value otherwise.  It ends with
\* this.calculateValueDiff().
calculateDefaultsOf(old) ==
    LET paddingBottom == IF Len(options.legend) > 0 THEN options.paddingBottom + 30
                         ELSE old.paddingBottom
        paddingRight == IF options.showRuler THEN options.paddingRight + 30
                        ELSE old.paddingRight
        stageWidth == options.width - 2 - paddingRight - 2
        stageHeight == options.height - 2 - paddingBottom - 2
    IN  [paddingBottom |-> paddingBottom, paddingRight |-> paddingRight,
         borderWidth |-> 2, boxInnerPadding |-> 2,
         stageWidth |-> stageWidth, stageHeight |-> stageHeight,
         oneXSegment |-> Ratio(stageWidth, options.totalElement),
         oneYSegment |-> Ratio(stageHeight, 100),
         valueDiff |-> calculateValueDiff(Current).valueDiff]

calculateDefaults == calculateDefaultsOf(settings)

\* The callback of onLoad().then(...): it runs after setOptions has returned.
init ==
    /\ pendingInit > 0
    /\ pendingInit' = pendingInit - 1
    /\ settings' = calculateDefaults
    /\ inited' = TRUE
    /\ thrown' = "none"
    /\ draws' = <<>>
    /\ resets' = 0
    /\ UNCHANGED <<options, data, nSetOptions, destroyed, nCalls, settled, tags>>

(***************************************************************************)
(* render.                                                                 *)
(***************************************************************************)
\* sortDesc(a, b) on two samples (typeof a === 'object'): a boolean.
sortDesc(a, b) == NumLess(a.value, b.value)

\* values.sort(this.sortDesc) where the engine moves a behind b exactly when
\* the comparator's result is > 0 (true): a stable insertion sort.
RECURSIVE InsertDesc(_, _)
InsertDesc(sorted, x) ==
    IF sorted = <<>> THEN <<x>>
    ELSE LET last == sorted[Len(sorted)]
         IN  IF sortDesc(last, x)
             THEN Append(InsertDesc(SubSeq(sorted, 1, Len(sorted) - 1), x), last)
             ELSE Append(sorted, x)

RECURSIVE SortedDesc(_)
SortedDesc(samples) ==
    IF samples = <<>> THEN <<>>
    ELSE InsertDesc(SortedDesc(SubSeq(samples, 1, Len(samples) - 1)),
                    samples[Len(samples)])

\* sortDesc returns a boolean, never a negative number, so it is no consistent
\* comparator and the order Array.prototype.sort leaves is the engine's
\* choice: an engine that tests the result for > 0 sorts descending, one that
\* tests it for < 0 (a merge of ascending runs) leaves the array as it is.
Engines == {"greater", "less"}

SortBy(engine, samples) ==
    IF engine = "greater" THEN SortedDesc(samples) ELSE samples

\* The batches render reaches: those before the first undefined batch, on
\* which values.forEach / values.sort raises TypeError.
Reached(window) ==
    IF \E b \in 1..Len(window) : ~window[b].ok
    THEN (CHOOSE b \in 1..Len(window) :
            ~window[b].ok /\ \A c \in 1..(b - 1) : window[c].ok) - 1
    ELSE Len(window)

\* Plugin.setOptions({segmentKey, iterKey, percent, id}); Plugin.draw() for
\* every sample of batch b.
drawBatch(plugin, samples, b) ==
    [i \in 1..Len(samples) |->
        [plugin |-> plugin, segmentKey |-> b - 1, iterKey |-> i - 1,
         percent |-> samples[i].value, id |-> samples[i].id]]

RECURSIVE drawBatches(_, _, _)
drawBatches(plugin, window, n) ==
    IF n = 0 THEN <<>>
    ELSE drawBatches(plugin, window, n - 1)
           \o drawBatch(plugin, window[n].samples, n)

\* drawBar sorts each batch it reaches in place.
sortedWindow(engine, window) ==
    [b \in 1..Len(window) |->
        IF b <= Reached(window)
        THEN [window[b] EXCEPT !.samples = SortBy(engine, @)]
        ELSE window[b]]

renderLine ==
    /\ draws' = drawBatches("Line", data, Reached(data))
    /\ resets' = IF Reached(data) = Len(data) THEN 1 ELSE 0
    /\ data' = data

renderBar(engine) ==
    /\ data' = sortedWindow(engine, data)
    /\ draws' = drawBatches("Bar", data', Reached(data))
    /\ resets' = 0

render ==
    /\ IF ~inited
       THEN /\ thrown' = "TypeError"
            /\ draws' = <<>>
            /\ resets' = 0
            /\ data' = data
       ELSE /\ thrown' = IF Reached(data) = Len(data) THEN "none" ELSE "TypeError"
            /\ \/ options.type = "line" /\ renderLine
               \/ options.type = "bar" /\ \E engine \in Engines : renderBar(engine)
    /\ UNCHANGED <<options, settings, inited, pendingInit, nSetOptions, destroyed,
                   nCalls, settled, tags>>

\* destroy(): this.Resize and this.Hover exist once init has run; nothing of
\* the engine itself is written.
destroy ==
    /\ thrown' = IF inited THEN "none" ELSE "TypeError"
    /\ destroyed' = TRUE
    /\ draws' = <<>>
    /\ resets' = 0
    /\ UNCHANGED <<options, settings, data, inited, pendingInit, nSetOptions,
                   nCalls, settled, tags>>

Init ==
    /\ options = Unset
    /\ settings = Settings
    /\ data = <<>>
    /\ inited = FALSE
    /\ pendingInit = 0
    /\ nSetOptions = 0
    /\ draws = <<>>
    /\ resets = 0
    /\ thrown = "none"
    /\ destroyed = FALSE
    /\ nCalls = 0
    /\ settled = TRUE
    /\ tags = <<>>

Next ==
    \/ \E user \in UserOptions : setOptions(user)
    \/ init
    \/ \E input \in Inputs : addChartData(input)
    \/ render

Spec == Init /\ [][Next]_vars

\* Configuration alone: setOptions with the options of ConfigOptions, and init.
NextConfig ==
    \/ \E user \in ConfigOptions : setOptions(user)
    \/ init

SpecConfig == Init /\ [][NextConfig]_vars

\* The life cycle: the operations of Spec, and destroy.
NextLifecycle ==
    \/ Next
    \/ destroy

SpecLifecycle == Init /\ [][NextLifecycle]_vars

(***************************************************************************)
(* Vocabulary of the claims.                                               *)
(***************************************************************************)
Min(a, b) == IF a < b THEN a ELSE b

\* The samples of the window, as <<batch, position>> pairs.
Stored ==
    UNION { {b} \X (1..Len(data[b].samples)) :
              b \in { c \in 1..Len(data) : data[c].ok } }

Sample(p) == data[p[1]].samples[p[2]]

\* round((clamp(raw) - min) / diff * 100), 0 replaced by 1, under the
\* current range.
Clamp(raw, lo, hi) == IF raw < lo THEN lo ELSE IF raw > hi THEN hi ELSE raw

NormalizeIn(raw, lo, hi, diff) == PercentOf(Clamp(raw, lo, hi) - lo, diff)

Normalize(raw) ==
    NormalizeIn(raw, options.minValue, options.maxValue, settings.valueDiff)

\* The options are set and their init has run.
Ready == options.set /\ inited /\ pendingInit = 0

\* Every addChartData call so far was made under the present options, after
\* their init had run.
Configured == options.set /\ settled

\* C1: with calcMaxValue enabled, after any sequence of addChartData calls
\* every stored sample has value = normalize(defValue) under the current
\* range, the samples of the batch that triggered an expansion included.
C1_ValueIsNormalizedDefValue ==
    (Configured /\ options.calcMaxValue) =>
        \A p \in Stored : Sample(p).value = Normalize(Sample(p).defValue)

\* C2: with a fixed totalElement, after n addChartData calls the window
\* holds min(n, totalElement) batches.
C2_WindowLength ==
    Configured => Len(data) = Min(nCalls, options.totalElement)

\* C3: with a fixed capacity the window holds exactly the batches of the most
\* recent min(n, totalElement) calls, in call order.
C3_MostRecentBatches ==
    Configured =>
        LET k == Min(nCalls, options.totalElement)
        IN  tags = [i \in 1..k |-> nCalls - k + i]

\* C4: a window that is no longer than options.totalElement is no longer
\* than options.totalElement after every operation, setOptions with a
\* smaller totalElement included.
C4_WithinCapacity ==
    [][(options.set /\ Len(data) <= options.totalElement)
         => Len(data') <= options'.totalElement]_vars

\* C5: every stored sample's value is an integer in [1,100], also for calls
\* made between setOptions and the deferred init.
C5_PercentInRange ==
    options.set =>
        \A p \in Stored :
            /\ Sample(p).value.fin
            /\ Sample(p).value.n \in 1..100
\* C6: in an initialised configuration with minValue < maxValue,
\* calculatePercent(minValue) is 1, calculatePercent(maxValue) is 100 and
\* neither call changes maxValue, valueDiff or the window.
C6_EndsOfRange ==
    (Ready /\ options.minValue < options.maxValue) =>
        LET lo == calculatePercent(Current, options.minValue, StackDepth)
            hi == calculatePercent(Current, options.maxValue, StackDepth)
        IN  /\ lo.percent = Fin(1)
            /\ hi.percent = Fin(100)
            /\ lo.st = Current
            /\ hi.st = Current

\* C6 on a range that an auto-expand has moved to 220 over a minimum of -100.
C6_Witness ==
    /\ Ready
    /\ options.minValue = -100
    /\ options.maxValue = 220
    /\ data # <<>>
    /\ calculatePercent(Current, options.maxValue, StackDepth).percent = Fin(100)

\* C7: with calcMaxValue enabled no addChartData call lowers
\* options.maxValue.
C7_MaxNeverShrinks ==
    [][(Ready /\ options.calcMaxValue /\ nCalls' = nCalls + 1)
         => options'.maxValue >= options.maxValue]_vars

\* The batch an addChartData step has appended, its samples as the items
\* the call was given, and the range before and after item i was mapped.
Appended == data'[Len(data')]

ItemsOf(batch) ==
    [i \in 1..Len(batch.samples) |->
        [value |-> batch.samples[i].defValue, id |-> batch.samples[i].id]]

RangeBefore(items, i) == mapItems(Current, SubSeq(items, 1, i - 1), 1, <<>>).st

RangeAfter(items, i) ==
    calculatePercent(RangeBefore(items, i), items[i].value, StackDepth).st

\* Item i is above the maximum when filterValue sees it.
Expands(items, i) ==
    /\ options.calcMaxValue
    /\ items[i].value >= options.minValue
    /\ items[i].value > RangeBefore(items, i).maxValue

\* An addChartData step that returned and appended a batch of samples.
AppendStep ==
    /\ options.set
    /\ nCalls' = nCalls + 1
    /\ thrown' = "none"
    /\ Appended.ok

\* C8 (as claimed): the percent stored for a sample that triggered an
\* expansion is 100.
C8_TriggerStoredAs100 ==
    [][AppendStep =>
         \A i \in 1..Len(Appended.samples) :
            Expands(ItemsOf(Appended), i) => Appended.samples[i].value = Fin(100)]_vars

\* C8 (amended): the percent stored for a sample that triggered an expansion
\* is round((raw - minValue) / (maxValue - minValue) * 100), 0 replaced by 1,
\* for the maxValue that the expansion leaves.
C8_TriggerStoredUnderNewRange ==
    [][AppendStep =>
         \A i \in 1..Len(Appended.samples) :
            Expands(ItemsOf(Appended), i) =>
                Appended.samples[i].value =
                    PercentOf(Appended.samples[i].defValue - options.minValue,
                              RangeAfter(ItemsOf(Appended), i).maxValue
                                - options.minValue)]_vars

\* C8: 200 arrives over the range [0, 100] and is stored as 91 under [0, 220].
C8_Witness ==
    /\ Configured
    /\ options.calcMaxValue
    /\ options.minValue = 0
    /\ options.maxValue = 220
    /\ thrown = "none"
    /\ nCalls = 1
    /\ data = <<[ok |-> TRUE,
                 samples |-> <<[value |-> Fin(91), defValue |-> 200, id |-> NoId]>>]>>

\* A call addChartData(raw) or addChartData({value: raw}) of one sample.
SingleSample(input) ==
    /\ input.shape \in {"number", "object"}
    /\ ~(input.shape = "object" /\ input.items[1].value = 0)

\* C9: after a single-sample addChartData(raw) with raw > maxValue and
\* calcMaxValue enabled, maxValue = raw * 1.1, valueDiff = maxValue - minValue
\* and every sample of the batches of earlier calls has
\* value = normalize(defValue) under the new range.
C9_ExpandRecomputesWindow ==
    [][\A input \in Inputs :
         (/\ Configured /\ Ready /\ options.calcMaxValue
          /\ SingleSample(input)
          /\ input.items[1].value > options.maxValue
          /\ addChartData(input))
         => /\ options'.maxValue = Expanded(input.items[1].value)
            /\ settings'.valueDiff = options'.maxValue - options'.minValue
            /\ \A b \in 1..Len(data') :
                 (data'[b].ok /\ tags'[b] <= nCalls) =>
                    \A i \in 1..Len(data'[b].samples) :
                       data'[b].samples[i].value =
                          NormalizeIn(data'[b].samples[i].defValue,
                                      options'.minValue, options'.maxValue,
                                      settings'.valueDiff)]_vars

\* C10: in bar mode render draws, batch by batch in window order, the
\* samples of each batch in descending order of value, equal values in their
\* original order, iterKey being the position in that order.
C10_BarsDrawnDescending ==
    [][(/\ Ready /\ options.type = "bar"
        /\ \A b \in 1..Len(data) : data[b].ok
        /\ render)
         => draws' = drawBatches("Bar",
                       [b \in 1..Len(data) |->
                          [data[b] EXCEPT !.samples = SortedDesc(@)]],
                       Len(data))]_vars
(***************************************************************************)
(* C11.  In line mode render draws the window batch by batch, every batch  *)
(* in the order its samples were supplied to addChartData, each draw       *)
(* tagged with segmentKey, iterKey, percent and id, and then calls         *)
(* Line.resetXY exactly once; whatever addChartData calls, renders and     *)
(* changes of options.type came before.  Stated for windows whose batches  *)
(* are all sample lists.                                                   *)
(***************************************************************************)
\* The arrays offered to addChartData carry Ids[i] at position i (Items), and
\* a single sample carries NoId: the order in which a batch was supplied.
InSuppliedOrder(samples) ==
    \A i \in 1..Len(samples) : samples[i].id \in {NoId, Ids[i]}

C11_LineDrawsInSuppliedOrder ==
    [][(render /\ inited /\ options.type = "line" /\ Reached(data) = Len(data))
         => /\ draws' = drawBatches("Line", data, Len(data))
            /\ \A b \in 1..Len(data) : InSuppliedOrder(data[b].samples)
            /\ resets' = 1]_vars

(***************************************************************************)
(* C12.  After init, settings.paddingBottom is options.paddingBottom + 30  *)
(* when the legend is not empty and options.paddingBottom otherwise;       *)
(* settings.paddingRight is options.paddingRight + 30 when showRuler is    *)
(* true and options.paddingRight otherwise; stageWidth and stageHeight are *)
(* the width and height less the border, the padding and the inner         *)
(* padding.                                                                *)
(***************************************************************************)
C12_PaddingsFollowOptions ==
    Ready =>
        /\ settings.paddingBottom =
               IF Len(options.legend) > 0 THEN options.paddingBottom + 30
               ELSE options.paddingBottom
        /\ settings.paddingRight =
               IF options.showRuler THEN options.paddingRight + 30
               ELSE options.paddingRight
        /\ settings.stageWidth =
               options.width - settings.borderWidth - settings.paddingRight
                   - settings.boxInnerPadding
        /\ settings.stageHeight =
               options.height - settings.borderWidth - settings.paddingBottom
                   - settings.boxInnerPadding

(***************************************************************************)
(* C13.  addChartData with a malformed input (a string, a boolean,         *)
(* undefined, an object without a value) raises no error and leaves the    *)
(* window as it was, contents and length.                                  *)
(***************************************************************************)
Malformed == { input \in Inputs : input.shape = "malformed" }

C13_MalformedIsNoOp ==
    [][\A input \in Malformed :
           addChartData(input) => (thrown' = "none" /\ data' = data)]_vars

(***************************************************************************)
(* C14.  For every number v, 0 and the negative ones included,             *)
(* addChartData(v), addChartData({value: v}) and                           *)
(* addChartData([{value: v}]) append the same batch: one sample whose      *)
(* defValue is v.                                                          *)
(***************************************************************************)
Shaped(shape, v) == [shape |-> shape, items |-> <<[value |-> v, id |-> NoId]>>]

C14_ThreeShapesAgree ==
    Ready =>
        \A v \in Raw :
            LET n == transformChartDataToPercent(Current, Shaped("number", v))
                o == transformChartDataToPercent(Current, Shaped("object", v))
                a == transformChartDataToPercent(Current, Shaped("array", v))
            IN  /\ n = o
                /\ n = a
                /\ n.st.err = "none" =>
                       /\ n.batch.ok
                       /\ Len(n.batch.samples) = 1
                       /\ n.batch.samples[1].defValue = v

(***************************************************************************)
(* C15.  A configuration whose maxValue is not above its minValue is       *)
(* rejected with an error at configuration time: init never completes      *)
(* without an error on such a range.                                       *)
(***************************************************************************)
C15_InvalidRangeRejected ==
    [][(init /\ options.maxValue <= options.minValue) => thrown' # "none"]_vars

(***************************************************************************)
(* C16.  Every addChartData call terminates: the recomputation that an     *)
(* auto-expand starts ends after finitely many steps, it never exhausts    *)
(* the call stack.  Stated for calls made on a Ready engine whose earlier   *)
(* calls all followed its configuration.                                   *)
(***************************************************************************)
C16_AutoExpandTerminates ==
    [][(Ready /\ settled /\ \E input \in Inputs : addChartData(input))
         => thrown' # "RangeError"]_vars

(***************************************************************************)
(* C17.  settings.valueDiff = options.maxValue - options.minValue in every *)
(* state in which addChartData or render can be called once options are    *)
(* set: after each setOptions, before and after its deferred init, and     *)
(* after each auto-expand.                                                 *)
(***************************************************************************)
C17_ValueDiffIsRange ==
    options.set => settings.valueDiff = options.maxValue - options.minValue

(***************************************************************************)
(* C18.  The geometry after init depends only on the current options: an   *)
(* engine that reached its options through several setOptions calls has    *)
(* the geometry of an engine that was given these options by its first     *)
(* setOptions call.                                                        *)
(***************************************************************************)
Geometry(s) ==
    [paddingBottom |-> s.paddingBottom, paddingRight |-> s.paddingRight,
     stageWidth |-> s.stageWidth, stageHeight |-> s.stageHeight,
     oneXSegment |-> s.oneXSegment, oneYSegment |-> s.oneYSegment]

C18_GeometryOfOptionsOnly ==
    Ready => Geometry(settings) = Geometry(calculateDefaultsOf(Settings))

(***************************************************************************)
(* C19.  Running recalculatePercents twice in succession gives the same    *)
(* sample values, maxValue and valueDiff as running it once.               *)
(***************************************************************************)
Outcome(st) == [maxValue |-> st.maxValue, valueDiff |-> st.valueDiff, data |-> st.data]

Once == recalculatePercents(Current, StackDepth)
Twice == recalculatePercents([Once EXCEPT !.err = "none"], StackDepth)

C19_RecalculateIdempotent == Outcome(Twice) = Outcome(Once)

\* A Ready engine on whose window one run of recalculatePercents grows the
\* range and changes stored percents.
C19_Witness ==
    /\ Ready
    /\ Stored # {}
    /\ Once.err = "none"
    /\ Once.maxValue > options.maxValue
    /\ Once.data # data

(***************************************************************************)
(* C20.  Once destroy() has been called the engine never becomes Ready     *)
(* again: no later step runs init (and with it attaches plugins) and no    *)
(* later render issues draw calls; for destroy called before or after      *)
(* init.                                                                   *)
(***************************************************************************)
C20_DestroyedForGood ==
    [][destroyed => (~init /\ draws' = <<>>)]_vars

====
